---- MODULE Spec2Model ----
(***************************************************************************)
(* Model of als_parser_rs: the streaming model builder                     *)
(* (get_project_from_als) and the differ (Project::diff), in both copies   *)
(* of the code: @napi-rs/parser/src/lib.rs ("lib") and src/main.rs         *)
(* ("main").                                                               *)
(***************************************************************************)
EXTENDS Integers, Sequences, FiniteSets, TLC

VARIABLES
    variant,        \* which copy of the code runs: "lib" or "main"
    \* ---- get_project_from_als
    pc,             \* "run" while the event loop runs, "done" after Eof
    project,        \* project.tracks
    cur_track,      \* Option<Track>
    branch_stack,   \* Vec<Vec<Branch>>
    in_name_block,  \* bool
    ev,             \* the event the loop read last
    nread,          \* number of events read so far
    last_name_ev,   \* history: "none", "open" or "close", the last Name event
    prev_track,     \* history: cur_track as it was before the event read last
    own,            \* history: the locals as the events read since the last track
                    \* open that took effect make them from the locals before the
                    \* loop; None when it is not kept
    input,          \* the events still to come, when a document is parsed
    doc,            \* the document the events of input were written from
    \* ---- Project::diff
    dpc,            \* "idle", "call", "loops", "ret"
    old,            \* old.tracks
    new,            \* self.tracks
    old_map,        \* HashMap<&id, &Track>
    new_map,
    old_todo,       \* keys the first loop has still to visit
    new_todo,       \* keys the second loop has still to visit
    cur_id,         \* loop variable id of the iteration run last
    cur_loop,       \* "none", "old" or "new": the loop that iteration belongs to
    pushed,         \* what that iteration pushed to changes
    changes         \* Vec<String>

parseVars == <<pc, project, cur_track, branch_stack, in_name_block, ev, nread,
               last_name_ev, prev_track, own, input, doc>>
diffVars == <<dpc, old, new, old_map, new_map, old_todo, new_todo, cur_id,
              cur_loop, pushed, changes>>
vars == <<variant, parseVars, diffVars>>

Variants == {"lib", "main"}

(***************************************************************************)
(* Option<T>: None is the empty sequence, Some(x) the one-element sequence *)
(***************************************************************************)
None == <<>>
Some(x) == <<x>>
IsSome(o) == o # <<>>
Unwrap(o) == o[1]

Last(s) == s[Len(s)]

(***************************************************************************)
(* Bytes and strings.  Attribute values and tag names arrive as bytes;     *)
(* String::from_utf8_lossy keeps valid UTF-8 and replaces an invalid       *)
(* sequence by U+FFFD.                                                     *)
(***************************************************************************)
BadBytes == "\\xFF"
Replacement == "\\uFFFD"
FromUtf8Lossy(bytes) == IF bytes = BadBytes THEN Replacement ELSE bytes

TrackTags == {"AudioTrack", "MidiTrack", "ReturnTrack"}
BranchTags == {"DrumBranch", "InstrumentBranch", "AudioEffectBranch"}

(***************************************************************************)
(* Track and Branch                                                        *)
(***************************************************************************)
TrackNew(track_type, id) ==
    [track_type |-> FromUtf8Lossy(track_type), id |-> FromUtf8Lossy(id),
     effective_name |-> "", user_name |-> None, branches |-> None]

BranchNew(branch_type) ==
    [branch_type |-> FromUtf8Lossy(branch_type),
     effective_name |-> "", user_name |-> None, branches |-> None]

\* Track::set_effective_name, Branch::set_effective_name
SetEffectiveName(x, effective_name) ==
    [x EXCEPT !.effective_name = FromUtf8Lossy(effective_name)]

\* Track::set_user_name, Branch::set_user_name
SetUserName(x, user_name) ==
    [x EXCEPT !.user_name = Some(FromUtf8Lossy(user_name))]

(***************************************************************************)
(* Events of the XML reader.  attr is the value of the one attribute the   *)
(* handlers look up: Id on an element open, Value on a self-closing        *)
(* element; None when the element does not carry it.                       *)
(***************************************************************************)
MaxEvents == 6

Event(kind, name, attr) == [kind |-> kind, name |-> name, attr |-> attr]
EofEvent == Event("Eof", "", None)
NoEvent == Event("None", "", None)

Ids == {"1", "2"}
Values == {"", "a", BadBytes}
EmptyNames == {"EffectiveName", "UserName", "Annotation"}
OtherTag == "DeviceChain"

StartTrackEvents == {Event("Start", n, a) : n \in TrackTags, a \in {None} \cup {Some(i) : i \in Ids}}
StartBranchEvents == {Event("Start", n, None) : n \in BranchTags}
EmptyEvents == {Event("Empty", n, a) : n \in EmptyNames, a \in {None} \cup {Some(v) : v \in Values}}
EndTrackEvents == {Event("End", n, None) : n \in TrackTags}
EndOtherEvents == {Event("End", n, None) : n \in BranchTags \cup {OtherTag}}

(***************************************************************************)
(* get_project_from_als: what the arms of the match do to the locals       *)
(* cur_track, branch_stack and in_name_block                               *)
(***************************************************************************)
\* a slip in Event::Start, track tag: an open track is not replaced
OpenTrack_keeps_open(cur, e) ==
    IF IsSome(cur) THEN cur
    ELSE IF IsSome(e.attr) THEN Some(TrackNew(e.name, Unwrap(e.attr)))
    ELSE cur

\* a slip in Event::Start, track tag: without Id the slot is cleared
OpenTrack_clears_without_id(cur, e) ==
    IF IsSome(e.attr) THEN Some(TrackNew(e.name, Unwrap(e.attr))) ELSE None

\* Event::Start, track tag: a new current track when the Id attribute is there
OpenTrack(cur, e) ==
    IF IsSome(e.attr) THEN Some(TrackNew(e.name, Unwrap(e.attr))) ELSE cur

\* a slip in Event::Start, branch tag: the branch goes to the bottom bucket
PushBranch_bottom(stack, name) ==
    IF stack # <<>>
       THEN [stack EXCEPT ![1] = Append(@, BranchNew(name))]
       ELSE stack

\* Event::Start, branch tag: pushed to the bucket on top of the stack, if any
PushBranch(stack, name) ==
    IF stack # <<>>
       THEN [stack EXCEPT ![Len(stack)] = Append(@, BranchNew(name))]
       ELSE stack

\* a slip in Event::Empty: the name-block gate is not looked at
Honored_no_gate(v, gate, e) ==
    IF v = "lib"
       THEN IsSome(e.attr)
       ELSE e.name \in {"EffectiveName", "UserName"} /\ IsSome(e.attr)

\* Event::Empty: is the element one whose Value the handler applies?
\* lib.rs has no match on the name; main.rs matches EffectiveName | UserName.
Honored(v, gate, e) ==
    IF v = "lib"
       THEN gate /\ IsSome(e.attr)
       ELSE e.name \in {"EffectiveName", "UserName"} /\ IsSome(e.attr) /\ gate

\* the inner if/else of Event::Empty on a branch or a track x
ApplyName(v, x, name, value) ==
    IF name = "EffectiveName" THEN SetEffectiveName(x, value)
    ELSE IF v = "lib" THEN SetUserName(x, value)
    ELSE IF value # "" THEN SetUserName(x, value)
    ELSE x

\* Event::Empty, the branch side: the last branch of the top bucket
NameToStack(v, stack, e) ==
    IF Last(stack) # <<>>
       THEN [stack EXCEPT ![Len(stack)][Len(Last(stack))] =
                ApplyName(v, @, e.name, Unwrap(e.attr))]
       ELSE stack

\* Event::Empty, the track side
NameToTrack(v, cur, e) ==
    IF IsSome(cur) THEN Some(ApplyName(v, Unwrap(cur), e.name, Unwrap(e.attr)))
    ELSE cur

\* a slip in Event::End, Branches: the list goes to the first branch of the
\* parent bucket, not to the last
PopAttach_first(stack) ==
    LET deepest == Last(stack)
        rest == SubSeq(stack, 1, Len(stack) - 1)
    IN  IF rest # <<>> /\ Last(rest) # <<>>
           THEN [rest EXCEPT ![Len(rest)][1].branches = Some(deepest)]
           ELSE rest

\* a slip in Event::End, Branches: the list is attached and left on the stack
PopAttach_no_pop(stack) ==
    LET rest == SubSeq(stack, 1, Len(stack) - 1)
    IN  IF rest # <<>> /\ Last(rest) # <<>>
           THEN [stack EXCEPT ![Len(rest)][Len(Last(rest))].branches = Some(Last(stack))]
           ELSE stack

\* Event::End, Branches: the stack after the pop and the attachment
PopAttach(stack) ==
    LET deepest == Last(stack)
        rest == SubSeq(stack, 1, Len(stack) - 1)
    IN  IF rest # <<>> /\ Last(rest) # <<>>
           THEN [rest EXCEPT ![Len(rest)][Len(Last(rest))].branches = Some(deepest)]
           ELSE rest

\* a slip in Event::End, Branches: the track takes the list also when a
\* bucket is left on the stack
AttachToTrack_always(stack, cur) ==
    IF IsSome(cur)
       THEN Some([Unwrap(cur) EXCEPT !.branches = Some(Last(stack))])
       ELSE cur

\* Event::End, Branches: the current track after the pop
AttachToTrack(stack, cur) ==
    IF Len(stack) = 1 /\ IsSome(cur)
       THEN Some([Unwrap(cur) EXCEPT !.branches = Some(Last(stack))])
       ELSE cur

\* the locals of the loop that the arms of the match change
Locals(t, s, g) == [cur_track |-> t, branch_stack |-> s, in_name_block |-> g]

\* the locals before the loop
NewLocals == Locals(None, <<>>, FALSE)

\* the locals after the arm of the match that event e takes
Handle(v, l, e) ==
    CASE e.kind = "Start" /\ e.name \in TrackTags ->
            [l EXCEPT !.cur_track = OpenTrack(@, e)]
      [] e.kind = "Start" /\ e.name = "Branches" ->
            [l EXCEPT !.branch_stack = Append(@, <<>>)]
      [] e.kind = "Start" /\ e.name \in BranchTags ->
            [l EXCEPT !.branch_stack = PushBranch(@, e.name)]
      [] e.kind = "Start" /\ e.name = "Name" ->
            [l EXCEPT !.in_name_block = TRUE]
      [] e.kind = "Empty" /\ Honored(v, l.in_name_block, e) ->
            IF l.branch_stack # <<>>
               THEN [l EXCEPT !.branch_stack = NameToStack(v, @, e)]
               ELSE [l EXCEPT !.cur_track = NameToTrack(v, @, e)]
      [] e.kind = "End" /\ e.name \in TrackTags ->
            [l EXCEPT !.cur_track = None]
      [] e.kind = "End" /\ e.name = "Branches" /\ l.branch_stack # <<>> ->
            [l EXCEPT !.branch_stack = PopAttach(@),
                      !.cur_track = AttachToTrack(l.branch_stack, @)]
      [] e.kind = "End" /\ e.name = "Name" ->
            [l EXCEPT !.in_name_block = FALSE]
      [] OTHER -> l

\* own after event e, when it is kept: a track open that takes effect is
\* handled from the locals before the loop, any other event from own
OwnAfter(v, o, e) ==
    IF ~IsSome(o) THEN o
    ELSE IF e.kind = "Start" /\ e.name \in TrackTags /\ IsSome(e.attr)
            THEN Some(Handle(v, NewLocals, e))
            ELSE Some(Handle(v, Unwrap(o), e))

(***************************************************************************)
(* get_project_from_als: one action per match arm of the event loop        *)
(***************************************************************************)
\* read_event_into returns e.  A document under parse hands out its events in
\* order; otherwise any event may come, up to MaxEvents of them before Eof.
Reads(e) ==
    /\ pc = "run"
    /\ IF IsSome(doc)
          THEN input # <<>> /\ e = Head(input) /\ input' = Tail(input)
          ELSE (e.kind = "Eof" \/ nread < MaxEvents) /\ input' = input
    /\ nread' = nread + 1
    /\ ev' = e
    /\ prev_track' = cur_track
    /\ own' = OwnAfter(variant, own, e)
    /\ UNCHANGED <<doc, variant, diffVars>>

StartTrack(e) ==
    /\ e.kind = "Start" /\ e.name \in TrackTags
    /\ Reads(e)
    /\ cur_track' = OpenTrack(cur_track, e)
    /\ UNCHANGED <<pc, project, branch_stack, in_name_block, last_name_ev>>

\* Event::Start, Branches
StartBranches(e) ==
    /\ e.kind = "Start" /\ e.name = "Branches"
    /\ Reads(e)
    /\ branch_stack' = Append(branch_stack, <<>>)
    /\ UNCHANGED <<pc, project, cur_track, in_name_block, last_name_ev>>

StartBranch(e) ==
    /\ e.kind = "Start" /\ e.name \in BranchTags
    /\ Reads(e)
    /\ branch_stack' = PushBranch(branch_stack, e.name)
    /\ UNCHANGED <<pc, project, cur_track, in_name_block, last_name_ev>>

\* Event::Start, Name
StartName(e) ==
    /\ e.kind = "Start" /\ e.name = "Name"
    /\ Reads(e)
    /\ in_name_block' = TRUE
    /\ last_name_ev' = "open"
    /\ UNCHANGED <<pc, project, cur_track, branch_stack>>

\* Event::Start, any other tag
StartOther(e) ==
    /\ e.kind = "Start" /\ e.name = OtherTag
    /\ Reads(e)
    /\ UNCHANGED <<pc, project, cur_track, branch_stack, in_name_block, last_name_ev>>

EmptyTag(e) ==
    /\ e.kind = "Empty"
    /\ Reads(e)
    /\ IF Honored(variant, in_name_block, e)
          THEN IF branch_stack # <<>>
                  THEN /\ branch_stack' = NameToStack(variant, branch_stack, e)
                       /\ cur_track' = cur_track
                  ELSE /\ cur_track' = NameToTrack(variant, cur_track, e)
                       /\ branch_stack' = branch_stack
          ELSE UNCHANGED <<cur_track, branch_stack>>
    /\ UNCHANGED <<pc, project, in_name_block, last_name_ev>>

\* a slip in Event::End, track tag: the track is pushed and stays open
EndTrack_keeps_slot(e) ==
    /\ e.kind = "End" /\ e.name \in TrackTags
    /\ Reads(e)
    /\ IF IsSome(cur_track)
          THEN project' = Append(project, Unwrap(cur_track))
          ELSE project' = project
    /\ UNCHANGED <<pc, cur_track, branch_stack, in_name_block, last_name_ev>>

\* Event::End, track tag: cur_track.take() and push
EndTrack(e) ==
    /\ e.kind = "End" /\ e.name \in TrackTags
    /\ Reads(e)
    /\ IF IsSome(cur_track)
          THEN /\ project' = Append(project, Unwrap(cur_track))
               /\ cur_track' = None
          ELSE UNCHANGED <<project, cur_track>>
    /\ UNCHANGED <<pc, branch_stack, in_name_block, last_name_ev>>

EndBranches(e) ==
    /\ e.kind = "End" /\ e.name = "Branches"
    /\ Reads(e)
    /\ IF branch_stack # <<>>
          THEN /\ branch_stack' = PopAttach(branch_stack)
               /\ cur_track' = AttachToTrack(branch_stack, cur_track)
          ELSE UNCHANGED <<branch_stack, cur_track>>
    /\ UNCHANGED <<pc, project, in_name_block, last_name_ev>>

\* Event::End, Name
EndName(e) ==
    /\ e.kind = "End" /\ e.name = "Name"
    /\ Reads(e)
    /\ in_name_block' = FALSE
    /\ last_name_ev' = "close"
    /\ UNCHANGED <<pc, project, cur_track, branch_stack>>

\* Event::End, any other tag
EndOther(e) ==
    /\ e.kind = "End" /\ e.name \in BranchTags \cup {OtherTag}
    /\ Reads(e)
    /\ UNCHANGED <<pc, project, cur_track, branch_stack, in_name_block, last_name_ev>>

\* Event::Eof: break, and the function returns project
Eof ==
    /\ Reads(EofEvent)
    /\ pc' = "done"
    /\ UNCHANGED <<project, cur_track, branch_stack, in_name_block, last_name_ev>>

(***************************************************************************)
(* The state of Project::diff while the parser runs                        *)
(***************************************************************************)
DiffIdle ==
    /\ dpc = "idle"
    /\ old = <<>> /\ new = <<>>
    /\ old_map = <<>> /\ new_map = <<>>
    /\ old_todo = {} /\ new_todo = {}
    /\ cur_id = "" /\ cur_loop = "none"
    /\ pushed = <<>> /\ changes = <<>>

\* the locals of get_project_from_als before the loop
ParseStart ==
    /\ pc = "run"
    /\ project = <<>>
    /\ cur_track = None
    /\ branch_stack = <<>>
    /\ in_name_block = FALSE
    /\ ev = NoEvent
    /\ nread = 0
    /\ last_name_ev = "none"
    /\ prev_track = None

Init ==
    /\ variant \in Variants
    /\ ParseStart
    /\ own = None
    /\ input = <<>>
    /\ doc = None
    /\ DiffIdle

Next ==
    \/ \E e \in StartTrackEvents : StartTrack(e)
    \/ StartBranches(Event("Start", "Branches", None))
    \/ \E e \in StartBranchEvents : StartBranch(e)
    \/ StartName(Event("Start", "Name", None))
    \/ StartOther(Event("Start", OtherTag, None))
    \/ \E e \in EmptyEvents : EmptyTag(e)
    \/ \E e \in EndTrackEvents : EndTrack(e)
    \/ EndBranches(Event("End", "Branches", None))
    \/ EndName(Event("End", "Name", None))
    \/ \E e \in EndOtherEvents : EndOther(e)
    \/ Eof

Spec == Init /\ [][Next]_vars

(***************************************************************************)
(* Project::diff and Track::diff_content                                   *)
(***************************************************************************)
MaxTracks == 2

Track(track_type, id, effective_name, user_name, branches) ==
    [track_type |-> track_type, id |-> id, effective_name |-> effective_name,
     user_name |-> user_name, branches |-> branches]

Kick == [BranchNew("DrumBranch") EXCEPT !.effective_name = "Kick"]
Snare == [BranchNew("DrumBranch") EXCEPT !.effective_name = "Snare"]

\* The tracks the differ is run on: for id 1 a base track and the tracks that
\* differ from it in one field, for id 2 a base track and a user-named one
\* whose name is the text that an absent name is rendered as.
DiffTracks ==
    { Track("MidiTrack", "1", "Piano", None, None),
      Track("AudioTrack", "1", "Piano", None, None),
      Track("MidiTrack", "1", "Guitar", None, None),
      Track("MidiTrack", "1", "Piano", Some("Lead"), None),
      Track("MidiTrack", "1", "Piano", None, Some(<<Kick>>)),
      Track("MidiTrack", "1", "Piano", None, Some(<<Kick, Snare>>)),
      Track("MidiTrack", "2", "Bass", None, None),
      Track("MidiTrack", "2", "Bass", Some("None"), None) }

DiffProjects == UNION {[1..n -> DiffTracks] : n \in 0..MaxTracks}

\* format!: the literal pieces and the arguments, in order
Format(pieces) == pieces

\* Option<String>::as_deref().unwrap_or("None")
UnwrapOrNone(o) == IF IsSome(o) THEN Unwrap(o) ELSE "None"

RemovedMsg(track) == Format(<<"Removed track: ", track.effective_name>>)
AddedMsg(track) == Format(<<"Added new track: ", track.effective_name>>)

RenamedMsg(v, self, old_t) ==
    IF v = "lib"
       THEN Format(<<"Track ", self.effective_name, ": Renamed from '",
                     UnwrapOrNone(old_t.user_name), "' to '",
                     UnwrapOrNone(self.user_name), "'">>)
       ELSE Format(<<"Track ", self.id, ": User name changed from '",
                     UnwrapOrNone(old_t.user_name), "' to '",
                     UnwrapOrNone(self.user_name), "'">>)

\* a slip in the swap message: the old effective_name is named as the new one
SwappedMsg_names_old(v, self, old_t) ==
    IF v = "lib"
       THEN Format(<<"Track ", self.id, ": Swapped instrument to ", old_t.effective_name>>)
       ELSE Format(<<"Track ", self.id, ": Changed instrument ", self.effective_name,
                     " to ", old_t.effective_name>>)

SwappedMsg(v, self, old_t) ==
    IF v = "lib"
       THEN Format(<<"Track ", self.id, ": Swapped instrument to ", self.effective_name>>)
       ELSE Format(<<"Track ", self.id, ": Changed instrument ", old_t.effective_name,
                     " to ", self.effective_name>>)

\* diff_branch_lists (lib.rs): what it pushes
diff_branch_lists(new_b, old_b, parent_name) ==
    IF IsSome(new_b) /\ IsSome(old_b)
       THEN IF Unwrap(new_b) # Unwrap(old_b)
               THEN <<Format(<<"Track ", parent_name, ": Modified internal Rack devices">>)>>
               ELSE <<>>
    ELSE IF IsSome(new_b)
       THEN <<Format(<<"Track ", parent_name, ": Added new Rack devices">>)>>
    ELSE IF IsSome(old_b)
       THEN <<Format(<<"Track ", parent_name, ": Removed all Rack devices">>)>>
    ELSE <<>>

\* a slip in diff_content: the effective_name is looked at first
diff_names_swap_first(v, self, old_t) ==
    IF self.effective_name # old_t.effective_name THEN <<SwappedMsg(v, self, old_t)>>
    ELSE IF self.user_name # old_t.user_name THEN <<RenamedMsg(v, self, old_t)>>
    ELSE <<>>

\* Track::diff_content, the if / else if on the two names: what it pushes
diff_names(v, self, old_t) ==
    IF self.user_name # old_t.user_name THEN <<RenamedMsg(v, self, old_t)>>
    ELSE IF self.effective_name # old_t.effective_name THEN <<SwappedMsg(v, self, old_t)>>
    ELSE <<>>

\* Track::diff_content: main.rs has the branch comparison commented out
diff_content(v, self, old_t) ==
    IF v = "lib"
       THEN diff_names(v, self, old_t)
            \o diff_branch_lists(self.branches, old_t.branches, self.effective_name)
       ELSE diff_names(v, self, old_t)

\* tracks.iter().map(|t| (&t.id, t)).collect(): a later entry replaces an
\* earlier one with the same key
Collect(tracks) ==
    [id \in {tracks[i].id : i \in DOMAIN tracks} |->
        LET at == {i \in DOMAIN tracks : tracks[i].id = id}
        IN  tracks[CHOOSE i \in at : \A j \in at : j <= i]]

\* the body of the first loop, for key id: what it pushes
removed_body(nmap, omap, id) ==
    IF id \notin DOMAIN nmap THEN <<RemovedMsg(omap[id])>> ELSE <<>>

\* the body of the second loop, for key id: what it pushes
added_body(v, nmap, omap, id) ==
    IF v = "lib"
       THEN IF id \in DOMAIN omap
               THEN IF nmap[id] # omap[id] THEN diff_content(v, nmap[id], omap[id])
                    ELSE <<>>
               ELSE <<AddedMsg(nmap[id])>>
       ELSE IF id \in DOMAIN omap
               THEN IF nmap[id] # omap[id] THEN diff_content(v, nmap[id], omap[id])
                    ELSE <<AddedMsg(nmap[id])>>
               ELSE <<>>

DiffFrame == UNCHANGED <<variant, parseVars, old, new>>

\* let old_map = ...; let new_map = ...;
DiffCollect ==
    /\ dpc = "call"
    /\ dpc' = "loops"
    /\ old_map' = Collect(old)
    /\ new_map' = Collect(new)
    /\ old_todo' = DOMAIN Collect(old)
    /\ new_todo' = DOMAIN Collect(new)
    /\ UNCHANGED <<cur_id, cur_loop, pushed, changes>>
    /\ DiffFrame

\* for (id, track) in &old_map: one iteration; a HashMap yields its keys in
\* an order of its own
DiffRemovedIter ==
    /\ dpc = "loops"
    /\ \E id \in old_todo :
          /\ old_todo' = old_todo \ {id}
          /\ cur_id' = id
          /\ pushed' = removed_body(new_map, old_map, id)
          /\ changes' = changes \o removed_body(new_map, old_map, id)
    /\ cur_loop' = "old"
    /\ UNCHANGED <<dpc, old_map, new_map, new_todo>>
    /\ DiffFrame

\* for (id, track) in &new_map: one iteration
DiffAddedIter ==
    /\ dpc = "loops"
    /\ old_todo = {}
    /\ \E id \in new_todo :
          /\ new_todo' = new_todo \ {id}
          /\ cur_id' = id
          /\ pushed' = added_body(variant, new_map, old_map, id)
          /\ changes' = changes \o added_body(variant, new_map, old_map, id)
    /\ cur_loop' = "new"
    /\ UNCHANGED <<dpc, old_map, new_map, old_todo>>
    /\ DiffFrame

\* changes is returned
DiffReturn ==
    /\ dpc = "loops"
    /\ old_todo = {} /\ new_todo = {}
    /\ dpc' = "ret"
    /\ UNCHANGED <<old_map, new_map, old_todo, new_todo, cur_id, cur_loop, pushed, changes>>
    /\ DiffFrame

\* no parse runs while two projects are diffed
ParseIdle ==
    /\ pc = "idle"
    /\ project = <<>>
    /\ cur_track = None
    /\ branch_stack = <<>>
    /\ in_name_block = FALSE
    /\ ev = NoEvent
    /\ nread = 0
    /\ last_name_ev = "none"
    /\ prev_track = None
    /\ own = None
    /\ input = <<>>
    /\ doc = None

InitDiff ==
    /\ variant \in Variants
    /\ ParseIdle
    /\ dpc = "call"
    /\ old \in DiffProjects
    /\ new \in DiffProjects
    /\ old_map = <<>> /\ new_map = <<>>
    /\ old_todo = {} /\ new_todo = {}
    /\ cur_id = "" /\ cur_loop = "none"
    /\ pushed = <<>> /\ changes = <<>>

NextDiff ==
    \/ DiffCollect
    \/ DiffRemovedIter
    \/ DiffAddedIter
    \/ DiffReturn

SpecDiff == InitDiff /\ [][NextDiff]_vars

(***************************************************************************)
(* Properties of the differ                                                *)
(***************************************************************************)
IdsOf(tracks) == {tracks[i].id : i \in DOMAIN tracks}
UniqueIds(tracks) ==
    \A i, j \in DOMAIN tracks : tracks[i].id = tracks[j].id => i = j
NamesOf(tracks) == {tracks[i].effective_name : i \in DOMAIN tracks}
Range(seq) == {seq[i] : i \in DOMAIN seq}
Count(seq, m) == Cardinality({i \in DOMAIN seq : seq[i] = m})

OnlyNew == IdsOf(new) \ IdsOf(old)
OnlyOld == IdsOf(old) \ IdsOf(new)

IsRenamed(m) == Len(m) = 7 /\ m[3] \in {": Renamed from '", ": User name changed from '"}
IsSwapped(m) == Len(m) >= 4 /\ m[3] \in {": Swapped instrument to ", ": Changed instrument "}
IsRackMsg(m) == Len(m) = 3 /\ m[1] = "Track "
IsRackModified(m) == IsRackMsg(m) /\ m[3] = ": Modified internal Rack devices"
IsRackAdded(m) == IsRackMsg(m) /\ m[3] = ": Added new Rack devices"
IsRackRemoved(m) == IsRackMsg(m) /\ m[3] = ": Removed all Rack devices"

\* the second loop has just compared the two tracks of an id of both maps
ComparedBoth ==
    /\ cur_loop = "new"
    /\ cur_id \in DOMAIN old_map
    /\ cur_id \in DOMAIN new_map

\* C1: the diff of a project against itself (new = old) is the empty change
\* list, in lib.rs and in main.rs.
C1_SelfDiffEmpty ==
    (dpc = "ret" /\ old = new) => changes = <<>>

\* C2: with unique ids on both sides the returned list holds exactly one
\* "Added new track" message, with the new track's effective_name, per id of
\* new only, none for an id of both, and exactly one "Removed track" message,
\* with the old track's effective_name, per id of old only.
C2_AddedRemovedExactlyOnce ==
    (dpc = "ret" /\ UniqueIds(old) /\ UniqueIds(new)) =>
        \A n \in NamesOf(old) \cup NamesOf(new) :
            /\ Count(changes, Format(<<"Added new track: ", n>>))
                 = Cardinality({id \in OnlyNew : new_map[id].effective_name = n})
            /\ Count(changes, Format(<<"Removed track: ", n>>))
                 = Cardinality({id \in OnlyOld : old_map[id].effective_name = n})

\* C3: antisymmetry in kind.  For projects A, B with unique ids and an id of B
\* only, diff(old = A, new = B) has an "added" message for its track and
\* diff(old = B, new = A) a "removed" message for it.  Every ordered pair of
\* projects is diffed, so the claim is that each diff has an added message for
\* every id of new only and a removed message for every id of old only.
C3_AntisymmetricInKind ==
    (dpc = "ret" /\ UniqueIds(old) /\ UniqueIds(new)) =>
        /\ \A id \in OnlyNew : AddedMsg(new_map[id]) \in Range(changes)
        /\ \A id \in OnlyOld : RemovedMsg(old_map[id]) \in Range(changes)

\* C4: for an id of both sides whose user_name differs, the iteration pushes
\* one rename message with the old and the new user name, an absent one as
\* "None", and no instrument-swap message, also when effective_name differs.
C4_RenameWins ==
    (ComparedBoth /\ new_map[cur_id].user_name # old_map[cur_id].user_name) =>
        /\ Cardinality({i \in DOMAIN pushed : IsRenamed(pushed[i])}) = 1
        /\ \A i \in DOMAIN pushed :
              /\ ~IsSwapped(pushed[i])
              /\ IsRenamed(pushed[i]) =>
                    /\ pushed[i][4] = UnwrapOrNone(old_map[cur_id].user_name)
                    /\ pushed[i][6] = UnwrapOrNone(new_map[cur_id].user_name)

C4_Witness ==
    /\ ComparedBoth
    /\ new_map[cur_id].user_name # old_map[cur_id].user_name
    /\ new_map[cur_id].effective_name # old_map[cur_id].effective_name
    /\ old_map[cur_id].user_name = None

\* C5: for an id of both sides with equal user_name, different effective_name
\* and equal branches, the iteration pushes exactly one message, an
\* instrument-swap message that names the new effective_name.
C5_SwapOnly ==
    (/\ ComparedBoth
     /\ new_map[cur_id].user_name = old_map[cur_id].user_name
     /\ new_map[cur_id].effective_name # old_map[cur_id].effective_name
     /\ new_map[cur_id].branches = old_map[cur_id].branches) =>
        /\ Len(pushed) = 1
        /\ IsSwapped(pushed[1])
        /\ Last(pushed[1]) = new_map[cur_id].effective_name

C5_Witness ==
    /\ ComparedBoth
    /\ new_map[cur_id].user_name = old_map[cur_id].user_name
    /\ new_map[cur_id].effective_name = "Guitar"
    /\ old_map[cur_id].effective_name = "Piano"
    /\ new_map[cur_id].branches = old_map[cur_id].branches
    /\ dpc = "ret"

\* C6: for an id of both sides whose tracks are unequal, the iteration pushes,
\* whatever it pushed for the names, "modified" when both branches are present
\* and unequal, "added" when only the new one is present, "removed" when only
\* the old one is, and nothing otherwise: at most one such message.
C6_BranchListsCompared ==
    (ComparedBoth /\ new_map[cur_id] # old_map[cur_id]) =>
        LET nb == new_map[cur_id].branches
            ob == old_map[cur_id].branches
            rack == SelectSeq(pushed, IsRackMsg)
        IN  /\ Len(rack) <= 1
            /\ (IsSome(nb) /\ IsSome(ob) /\ nb # ob) => (Len(rack) = 1 /\ IsRackModified(rack[1]))
            /\ (IsSome(nb) /\ ~IsSome(ob)) => (Len(rack) = 1 /\ IsRackAdded(rack[1]))
            /\ (~IsSome(nb) /\ IsSome(ob)) => (Len(rack) = 1 /\ IsRackRemoved(rack[1]))
            /\ (nb = ob) => Len(rack) = 0

\* C7: when two tracks of old, or two of new, share an id, diff reports a
\* precondition violation: it does not return a change list made from a
\* mapping that kept one of the two.
C7_DuplicateIdsReported ==
    dpc = "ret" => (UniqueIds(old) /\ UniqueIds(new))

(***************************************************************************)
(* Documents: one track whose Branches groups nest, every track and every  *)
(* branch holding at most one group, written out as the events of its XML  *)
(***************************************************************************)
MaxDepth == 3
MaxWidth == 2
MaxBranches == 4

DocBranchTags == {"DrumBranch", "InstrumentBranch"}

RECURSIVE ListSize(_)
\* the number of branches of a list, nested ones included
ListSize(list) ==
    IF list = <<>> THEN 0
    ELSE 1 + (IF IsSome(Head(list).branches) THEN ListSize(Unwrap(Head(list).branches)) ELSE 0)
           + ListSize(Tail(list))

RECURSIVE ListsOf(_, _, _)
RECURSIVE BranchesOf(_, _)
RECURSIVE OptListsOf(_, _)

\* the sibling lists of at most w branches, d group levels and n branches in all
ListsOf(d, n, w) ==
    IF w = 0 \/ n = 0 THEN {<<>>}
    ELSE LET shorter == ListsOf(d, n, w - 1)
         IN  shorter \cup
             UNION { {Append(l, b) : b \in BranchesOf(d, n - ListSize(l))} :
                     l \in {x \in shorter : Len(x) = w - 1} }

BranchesOf(d, n) ==
    IF n = 0 THEN {}
    ELSE { [branch_type |-> k, effective_name |-> "a", user_name |-> None, branches |-> o] :
           k \in DocBranchTags, o \in OptListsOf(d - 1, n - 1) }

OptListsOf(d, n) ==
    IF d = 0 THEN {None}
    ELSE {None} \cup {Some(l) : l \in ListsOf(d, n, MaxWidth)}

DocTracks ==
    { Track("MidiTrack", "1", "a", None, o) : o \in OptListsOf(MaxDepth, MaxBranches) }

\* <Name><EffectiveName Value=".."/><UserName Value=".."/></Name>, the
\* UserName element written when the name is set
SerName(x) ==
    <<Event("Start", "Name", None), Event("Empty", "EffectiveName", Some(x.effective_name))>>
    \o (IF IsSome(x.user_name) THEN <<Event("Empty", "UserName", x.user_name)>> ELSE <<>>)
    \o <<Event("End", "Name", None)>>

RECURSIVE SerList(_)
RECURSIVE SerBranch(_)
RECURSIVE SerOpt(_)

SerList(list) ==
    IF list = <<>> THEN <<>> ELSE SerBranch(Head(list)) \o SerList(Tail(list))

SerBranch(b) ==
    <<Event("Start", b.branch_type, None)>> \o SerName(b) \o SerOpt(b.branches)
    \o <<Event("End", b.branch_type, None)>>

SerOpt(o) ==
    IF IsSome(o)
       THEN <<Event("Start", "Branches", None)>> \o SerList(Unwrap(o))
            \o <<Event("End", "Branches", None)>>
       ELSE <<>>

SerTrack(t) ==
    <<Event("Start", t.track_type, Some(t.id))>> \o SerName(t)
    \o <<Event("Start", OtherTag, None)>> \o SerOpt(t.branches)
    \o <<Event("End", OtherTag, None), Event("End", t.track_type, None), EofEvent>>

InitDoc ==
    /\ variant \in Variants
    /\ ParseStart
    /\ own = None
    /\ doc \in {Some(t) : t \in DocTracks}
    /\ input = SerTrack(Unwrap(doc))
    /\ DiffIdle

SpecDoc == InitDoc /\ [][Next]_vars

\* C8: the parse of a document whose Branches groups nest to depth 3 at most
\* returns one track whose branches tree is the document's: the list of a
\* nested group is the branches field of the branch the group is in, the
\* outermost list is the track's, and siblings keep the document's order.
C8_NestingMirrored ==
    (pc = "done" /\ IsSome(doc)) => project = <<Unwrap(doc)>>

C8_Witness ==
    /\ pc = "done"
    /\ Len(project) = 1
    /\ IsSome(project[1].branches)
    /\ LET l1 == Unwrap(project[1].branches)
       IN  /\ Len(l1) = 2
           /\ l1[1].branch_type # l1[2].branch_type
           /\ IsSome(l1[1].branches)
           /\ Len(Unwrap(l1[1].branches)) = 1
           /\ IsSome(Unwrap(l1[1].branches)[1].branches)
           /\ Len(Unwrap(Unwrap(l1[1].branches)[1].branches)) = 1

(***************************************************************************)
(* Properties of the event loop                                            *)
(***************************************************************************)
\* the step reads a self-closing element
ReadsEmpty == nread' = nread + 1 /\ ev'.kind = "Empty"

ModelUnchanged == UNCHANGED <<cur_track, branch_stack, project>>

\* C9: the gate is true exactly when the last Name event read was an open,
\* and a self-closing EffectiveName or UserName element read while the gate is
\* false (at the start, after a Name close) leaves current track, branch
\* stack and project as they were.
C9_GatedNames ==
    [][ /\ (in_name_block' <=> last_name_ev' = "open")
        /\ (/\ ReadsEmpty
            /\ ev'.name \in {"EffectiveName", "UserName"}
            /\ last_name_ev # "open") => ModelUnchanged ]_vars

C9_Witness ==
    /\ ev.kind = "Empty"
    /\ ev.name \in {"EffectiveName", "UserName"}
    /\ ev.attr = Some("a")
    /\ last_name_ev = "close"
    /\ IsSome(cur_track)
    /\ Unwrap(cur_track).effective_name = "a"

\* C10: a self-closing element of any name but EffectiveName and UserName,
\* with or without a Value, gate true or false, leaves current track, branch
\* stack and project as they were.
C10_OtherNamesIgnored ==
    [][ (ReadsEmpty /\ ev'.name \notin {"EffectiveName", "UserName"})
            => ModelUnchanged ]_vars

\* the element read by the step is a name tag that is to be applied: gate
\* true, EffectiveName or UserName, a Value, and for UserName a non-empty one
ReadsHonoredName ==
    /\ ReadsEmpty
    /\ in_name_block
    /\ ev'.name \in {"EffectiveName", "UserName"}
    /\ IsSome(ev'.attr)
    /\ (ev'.name = "UserName" => Unwrap(ev'.attr) # "")

\* x with the value of the name tag e in the field e names
WithName(x, e) ==
    IF e.name = "EffectiveName"
       THEN [x EXCEPT !.effective_name = FromUtf8Lossy(Unwrap(e.attr))]
       ELSE [x EXCEPT !.user_name = Some(FromUtf8Lossy(Unwrap(e.attr)))]

\* C11: an honored name tag goes to the last branch of the top list, and to
\* nothing else, when the stack and its top list are non-empty; otherwise,
\* also when the stack is non-empty and its top list empty, it goes to the
\* current track when one is open.
C11_TargetSelection ==
    [][ ReadsHonoredName =>
          IF branch_stack # <<>> /\ Last(branch_stack) # <<>>
             THEN /\ branch_stack' =
                        [branch_stack EXCEPT ![Len(branch_stack)][Len(Last(branch_stack))] =
                            WithName(@, ev')]
                  /\ cur_track' = cur_track
                  /\ project' = project
             ELSE /\ IsSome(cur_track) => cur_track' = Some(WithName(Unwrap(cur_track), ev'))
                  /\ branch_stack' = branch_stack
                  /\ project' = project ]_vars

\* the step reads the open or the close of a track element
ReadsStartTrack == nread' = nread + 1 /\ ev'.kind = "Start" /\ ev'.name \in TrackTags
ReadsEndTrack == nread' = nread + 1 /\ ev'.kind = "End" /\ ev'.name \in TrackTags

\* C12: the track list changes only when a track close is read while a track
\* is open: that track is appended at the end and the slot cleared; a track
\* close with no open track changes nothing.
C12_TracksAppendedOnClose ==
    [][ /\ project' # project => (ReadsEndTrack /\ IsSome(cur_track))
        /\ (ReadsEndTrack /\ IsSome(cur_track)) =>
              (project' = Append(project, Unwrap(cur_track)) /\ cur_track' = None)
        /\ (ReadsEndTrack /\ ~IsSome(cur_track)) =>
              UNCHANGED <<project, cur_track, branch_stack, in_name_block>> ]_vars

C12_Witness ==
    /\ ev.kind = "End" /\ ev.name \in TrackTags
    /\ Len(project) = 2
    /\ project[1].id # project[2].id
    /\ prev_track = Some(project[2])
    /\ cur_track = None

\* C13: one track at most is open; a track open with an Id read while a track
\* is open puts a new, empty track in its place, and the track list and the
\* branch stack stay as they were, so that nothing of the replaced track, its
\* names and branches included, is left to reach the project.
C13_OpenTrackReplaced ==
    [][ /\ Len(cur_track') <= 1
        /\ (ReadsStartTrack /\ IsSome(ev'.attr) /\ IsSome(cur_track)) =>
              /\ cur_track' = Some([track_type |-> ev'.name,
                                    id |-> FromUtf8Lossy(Unwrap(ev'.attr)),
                                    effective_name |-> "", user_name |-> None,
                                    branches |-> None])
              /\ UNCHANGED <<project, branch_stack>> ]_vars

C13_Witness ==
    /\ ev.kind = "Start" /\ ev.name \in TrackTags /\ ev.attr = Some("2")
    /\ IsSome(prev_track)
    /\ Unwrap(prev_track).id = "1"
    /\ Unwrap(prev_track).effective_name = "a"
    /\ IsSome(Unwrap(prev_track).branches)
    /\ IsSome(cur_track)
    /\ Unwrap(cur_track).id = "2"
    /\ project = <<>>

\* C14: a track open without the Id attribute is skipped: current track
\* (empty or open), branch stack, gate and project stay as they were and the
\* loop goes on.
C14_TrackWithoutIdSkipped ==
    [][ (ReadsStartTrack /\ ~IsSome(ev'.attr)) =>
           UNCHANGED <<cur_track, branch_stack, in_name_block, project, pc>> ]_vars

C14_Witness ==
    /\ ev.kind = "Start" /\ ev.name \in TrackTags /\ ev.attr = None
    /\ IsSome(prev_track)
    /\ cur_track = prev_track
    /\ pc = "run"

\* the step reads the open of a branch element, the open or the close of a
\* Branches element
ReadsStartBranch == nread' = nread + 1 /\ ev'.kind = "Start" /\ ev'.name \in BranchTags
ReadsStartBranches == nread' = nread + 1 /\ ev'.kind = "Start" /\ ev'.name = "Branches"
ReadsEndBranches == nread' = nread + 1 /\ ev'.kind = "End" /\ ev'.name = "Branches"

\* C15: a branch open appends one new Branch (kind from the tag, empty
\* effective_name, no user_name, no branches) to the top list of the stack
\* and changes no other list; with an empty stack nothing changes.
C15_BranchPushedOnTop ==
    [][ ReadsStartBranch =>
          /\ UNCHANGED <<cur_track, project, in_name_block, pc>>
          /\ IF branch_stack # <<>>
                THEN branch_stack' =
                        [branch_stack EXCEPT ![Len(branch_stack)] =
                            Append(@, [branch_type |-> ev'.name, effective_name |-> "",
                                       user_name |-> None, branches |-> None])]
                ELSE branch_stack' = branch_stack ]_vars

C15_Witness ==
    /\ ev.kind = "Start" /\ ev.name = "InstrumentBranch"
    /\ Len(branch_stack) = 2
    /\ Len(branch_stack[1]) = 1
    /\ Len(branch_stack[2]) = 2
    /\ branch_stack[2][2].branch_type = "InstrumentBranch"
    /\ branch_stack[2][1].branch_type = "DrumBranch"

\* C16: a Branches close with a non-empty stack pops the top list; with a
\* bucket left on the stack the list becomes the branches of the last branch
\* of the new top list (and is dropped when that list has no branch); with
\* no bucket left it becomes the branches of the open track, and is dropped
\* when no track is open.  With an empty stack nothing changes.  The list
\* goes to one parent at most.
C16_PopAttachesToOneParent ==
    [][ ReadsEndBranches =>
          /\ UNCHANGED <<project, in_name_block, pc>>
          /\ IF branch_stack = <<>>
                THEN UNCHANGED <<branch_stack, cur_track>>
                ELSE LET popped == Last(branch_stack)
                         rest == SubSeq(branch_stack, 1, Len(branch_stack) - 1)
                     IN  IF rest # <<>>
                            THEN /\ cur_track' = cur_track
                                 /\ IF Last(rest) # <<>>
                                       THEN branch_stack' =
                                              [rest EXCEPT ![Len(rest)][Len(Last(rest))].branches
                                                              = Some(popped)]
                                       ELSE branch_stack' = rest
                            ELSE /\ branch_stack' = rest
                                 /\ IF IsSome(cur_track)
                                       THEN cur_track' =
                                              Some([Unwrap(cur_track) EXCEPT !.branches = Some(popped)])
                                       ELSE cur_track' = cur_track ]_vars

C16_Witness ==
    /\ ev.kind = "End" /\ ev.name = "Branches"
    /\ IsSome(cur_track)
    /\ cur_track = prev_track
    /\ Len(branch_stack) = 1
    /\ Len(branch_stack[1]) = 1
    /\ branch_stack[1][1].branches = Some(<<BranchNew("DrumBranch")>>)

C17_EmptyUserNameNotSet ==
    [][ (ReadsEmpty /\ in_name_block /\ ev'.name = "UserName" /\ ev'.attr = Some(""))
            => ModelUnchanged ]_vars

\* C18: at the end of the stream the parser returns the project, and a track
\* still open or a branch list still on the stack is reported or included:
\* the project alone is returned only when neither is left.
C18_OpenDataSurfacedAtEof ==
    pc = "done" => (cur_track = None /\ branch_stack = <<>>)

\* C20: for an id of both sides whose two tracks are unequal in any field,
\* track_type alone included, the iteration pushes at least one message.
C20_EveryChangeReported ==
    (ComparedBoth /\ new_map[cur_id] # old_map[cur_id]) => pushed # <<>>

(***************************************************************************)
(* The event loop with the history variable own kept                       *)
(***************************************************************************)
InitIso ==
    /\ variant \in Variants
    /\ ParseStart
    /\ own = Some(NewLocals)
    /\ input = <<>>
    /\ doc = None
    /\ DiffIdle

SpecIso == InitIso /\ [][Next]_vars

\* every step of the loop changes the locals as Handle says
ArmsAgree ==
    [][ nread' = nread + 1 =>
          Locals(cur_track', branch_stack', in_name_block')
            = Handle(variant, Locals(cur_track, branch_stack, in_name_block), ev') ]_vars

\* C21: track isolation.  The track that a track close appends to the project
\* is the track that the events from its own open to that close make, read
\* from the locals before the loop (empty branch stack, gate false): a list
\* left on the stack or a gate left true before the track's open takes none
\* of its name tags and closed Branches groups, and gives it none.
C21_TrackIsolation ==
    [][ (ReadsEndTrack /\ IsSome(cur_track)) =>
            Some(Last(project')) = Unwrap(own).cur_track ]_vars

====
